---- MODULE Spec2Model ----
(***************************************************************************)
(* Model of mysql_2_parquet_hive_ddl_converter.py: the ordered type map,   *)
(* convert_mysql_type, extract_columns, the two generators and the         *)
(* per-table loop of main.                                                 *)
(*                                                                         *)
(* A Python str is a TLA+ string (a sequence of characters): Len, SubSeq   *)
(* and \o are the only operations used on it.  A TLA+ string literal       *)
(* cannot hold the backtick, so BQ stands for that one character wherever  *)
(* the program reads or writes it.                                         *)
(***************************************************************************)
EXTENDS Integers, Sequences, FiniteSets, TLC

(***************************************************************************)
(* Bounds of the checked instances.                                        *)
(***************************************************************************)
MaxPrecision == 39
MaxTables == 2
MaxCols == 2
MaxPks == 2

(***************************************************************************)
(* Python str primitives.                                                  *)
(***************************************************************************)
BQ == "^"

At(s, i) == SubSeq(s, i, i)
From(s, i) == SubSeq(s, i, Len(s))
Min(S) == CHOOSE x \in S : \A y \in S : x <= y
Max(S) == CHOOSE x \in S : \A y \in S : x >= y

\* the characters str.strip() and str.split() treat as whitespace
Whitespace == {" ", "\t", "\n", "\r", "\f"}
DigitChars == "0123456789"
UpperChars == "ABCDEFGHIJKLMNOPQRSTUVWXYZ"
LowerChars == "abcdefghijklmnopqrstuvwxyz"

CharsOf(alphabet) == {At(alphabet, i) : i \in 1..Len(alphabet)}
IndexIn(alphabet, c) == CHOOSE i \in 1..Len(alphabet) : At(alphabet, i) = c

IsDigit(c) == c \in CharsOf(DigitChars)
DigitValue == [c \in CharsOf(DigitChars) |-> IndexIn(DigitChars, c) - 1]

\* the character tables of str.lower() and str.upper()
ToLower == [c \in CharsOf(UpperChars) |-> At(LowerChars, IndexIn(UpperChars, c))]
ToUpper == [c \in CharsOf(LowerChars) |-> At(UpperChars, IndexIn(LowerChars, c))]

MapChars(s, table) ==
  LET conv(c) == IF c \in DOMAIN table THEN table[c] ELSE c
      RECURSIVE go(_, _)
      go(lo, hi) ==
        IF lo > hi THEN ""
        ELSE IF lo = hi THEN conv(At(s, lo))
        ELSE go(lo, (lo + hi) \div 2) \o go((lo + hi) \div 2 + 1, hi)
  IN  go(1, Len(s))

\* str.lower() and str.upper()
lower(s) == MapChars(s, ToLower)
upper(s) == MapChars(s, ToUpper)

\* str.startswith(prefix)
startswith(s, prefix) ==
  Len(prefix) <= Len(s) /\ SubSeq(s, 1, Len(prefix)) = prefix

\* str.lstrip(chars) / str.rstrip(chars) / str.strip(chars) for a character set
lstrip(s, chars) ==
  LET keep == {i \in 1..Len(s) : At(s, i) \notin chars}
  IN  IF keep = {} THEN "" ELSE From(s, Min(keep))

rstrip(s, chars) ==
  LET keep == {i \in 1..Len(s) : At(s, i) \notin chars}
  IN  IF keep = {} THEN "" ELSE SubSeq(s, 1, Max(keep))

strip(s, chars) == rstrip(lstrip(s, chars), chars)

\* the k-th smallest element of a set of numbers
Nth(S, k) == CHOOSE x \in S : Cardinality({y \in S : y <= x}) = k

\* str.split(sep) for a one-character separator: never an empty list
split_on(s, sep) ==
  LET cuts == {i \in 1..Len(s) : At(s, i) = sep}
      n == Cardinality(cuts)
      first(k) == IF k = 1 THEN 1 ELSE Nth(cuts, k - 1) + 1
      last(k) == IF k = n + 1 THEN Len(s) ELSE Nth(cuts, k) - 1
  IN  [k \in 1..(n + 1) |-> SubSeq(s, first(k), last(k))]

\* str.split(): runs of whitespace separate the tokens, no empty token
split(s) ==
  LET blank(i) == i < 1 \/ i > Len(s) \/ At(s, i) \in Whitespace
      starts == {i \in 1..Len(s) : ~blank(i) /\ blank(i - 1)}
      stop(i) == Min({j \in i..Len(s) : blank(j + 1)})
  IN  [k \in 1..Cardinality(starts) |-> SubSeq(s, Nth(starts, k), stop(Nth(starts, k)))]

\* int(text) on a run of decimal digits
int(ds) ==
  LET RECURSIVE go(_, _)
      go(i, acc) ==
        IF i > Len(ds) THEN acc
        ELSE go(i + 1, acc * 10 + DigitValue[At(ds, i)])
  IN  go(1, 0)

\* str(n) of a natural number, as an f-string renders it
RECURSIVE str_of_int(_)
str_of_int(n) ==
  IF n < 10 THEN At(DigitChars, n + 1)
  ELSE str_of_int(n \div 10) \o At(DigitChars, (n % 10) + 1)

\* text contains sub (the `in` operator on str)
Contains(text, sub) ==
  \E i \in 1..(Len(text) - Len(sub) + 1) : SubSeq(text, i, i + Len(sub) - 1) = sub

(***************************************************************************)
(* The regular expressions of the program.  A pattern is a sequence of     *)
(* elements: a literal text, or \d+ (one or more digits), captured or not. *)
(***************************************************************************)
Lit(text) == [kind |-> "lit", text |-> text, capture |-> FALSE]
Digits(capture) == [kind |-> "digits", text |-> "", capture |-> capture]

NoMatch == [matched |-> FALSE, groups |-> <<>>, end |-> 0]

\* the longest run of digits of t that starts at pos
DigitRun(t, pos) ==
  LET stops == {j \in pos..Len(t) : ~IsDigit(At(t, j))}
  IN  (IF stops = {} THEN Len(t) + 1 ELSE Min(stops)) - pos

\* re.match(pattern, t): anchored at the start of t, free at its end;
\* \d+ is greedy and gives digits back when the rest does not match
re_match(pattern, t) ==
  LET RECURSIVE go(_, _, _)
      go(k, pos, groups) ==
        IF k > Len(pattern)
        THEN [matched |-> TRUE, groups |-> groups, end |-> pos]
        ELSE
          LET e == pattern[k] IN
          IF e.kind = "lit"
          THEN IF startswith(From(t, pos), e.text)
               THEN go(k + 1, pos + Len(e.text), groups)
               ELSE NoMatch
          ELSE
            LET n == DigitRun(t, pos)
                taken(m) == IF e.capture
                            THEN Append(groups, SubSeq(t, pos, pos + m - 1))
                            ELSE groups
                fits == {m \in 1..n : go(k + 1, pos + m, taken(m)).matched}
            IN  IF fits = {} THEN NoMatch
                ELSE go(k + 1, pos + Max(fits), taken(Max(fits)))
  IN  go(1, 1, <<>>)

(***************************************************************************)
(* Console output.  Each print is recorded with the helper that made it;   *)
(* info and ok print only when enabled.                                    *)
(***************************************************************************)
info(msg, enabled) == IF enabled THEN <<[level |-> "info", msg |-> msg]>> ELSE <<>>
ok(msg, enabled) == IF enabled THEN <<[level |-> "ok", msg |-> msg]>> ELSE <<>>
warn(msg) == <<[level |-> "warn", msg |-> msg]>>
error(msg) == <<[level |-> "error", msg |-> msg]>>

(***************************************************************************)
(* pyarrow data types, as the values the type map holds.                   *)
(***************************************************************************)
pa_bool == [type |-> "bool"]
pa_int8 == [type |-> "int8"]
pa_int16 == [type |-> "int16"]
pa_int32 == [type |-> "int32"]
pa_int64 == [type |-> "int64"]
pa_float32 == [type |-> "float"]
pa_float64 == [type |-> "double"]
pa_string == [type |-> "string"]
pa_binary == [type |-> "binary"]
pa_date32 == [type |-> "date32"]
pa_timestamp(unit) == [type |-> "timestamp", unit |-> unit]
pa_none == [type |-> "none"]

\* pa.decimal128 accepts a precision of 1..38 and raises ValueError otherwise
Decimal128MaxPrecision == 38
pa_decimal128(precision, scale) ==
  IF precision >= 1 /\ precision <= Decimal128MaxPrecision
  THEN [raised |-> FALSE,
        value |-> [type |-> "decimal128", precision |-> precision, scale |-> scale]]
  ELSE [raised |-> TRUE, value |-> pa_none]

(***************************************************************************)
(* MYSQL_TYPE_MAP: the rules in the order the dict literal lists them.     *)
(* callable marks the entry whose "hive" and "parquet" are lambdas.        *)
(***************************************************************************)
Rule(pattern, hive, parquet, note) ==
  [pattern |-> pattern, callable |-> FALSE, hive |-> hive, parquet |-> parquet,
   note |-> note]

rule_tinyint1 == Rule(<<Lit("tinyint(1)")>>, "BOOLEAN", pa_bool,
                      "Mapped MySQL tinyint(1) to BOOLEAN")
rule_tinyint == Rule(<<Lit("tinyint")>>, "TINYINT", pa_int8, "")
rule_smallint == Rule(<<Lit("smallint")>>, "SMALLINT", pa_int16, "")
rule_mediumint == Rule(<<Lit("mediumint")>>, "INT", pa_int32,
                       "MySQL MEDIUMINT mapped to Hive INT")
rule_int == Rule(<<Lit("int")>>, "INT", pa_int32, "")
rule_bigint == Rule(<<Lit("bigint")>>, "BIGINT", pa_int64, "")
rule_float == Rule(<<Lit("float")>>, "FLOAT", pa_float32, "")
rule_double == Rule(<<Lit("double")>>, "DOUBLE", pa_float64, "")
rule_decimal ==
  [pattern |-> <<Lit("decimal("), Digits(TRUE), Lit(","), Digits(TRUE), Lit(")")>>,
   callable |-> TRUE, hive |-> "", parquet |-> pa_none, note |-> ""]
rule_varchar == Rule(<<Lit("varchar("), Digits(FALSE), Lit(")")>>, "STRING", pa_string, "")
rule_char == Rule(<<Lit("char("), Digits(FALSE), Lit(")")>>, "STRING", pa_string, "")
rule_text == Rule(<<Lit("text")>>, "STRING", pa_string, "")
rule_blob == Rule(<<Lit("blob")>>, "BINARY", pa_binary, "")
rule_date == Rule(<<Lit("date")>>, "DATE", pa_date32, "")
rule_datetime == Rule(<<Lit("datetime")>>, "TIMESTAMP", pa_timestamp("s"), "")
rule_timestamp == Rule(<<Lit("timestamp")>>, "TIMESTAMP", pa_timestamp("s"), "")
rule_enum == Rule(<<Lit("enum")>>, "STRING", pa_string,
                  "ENUM is not supported in Hive; converted to STRING")
rule_set == Rule(<<Lit("set")>>, "STRING", pa_string,
                 "SET is not supported in Hive; converted to STRING")
rule_json == Rule(<<Lit("json")>>, "STRING", pa_string, "JSON stored as STRING")
rule_time == Rule(<<Lit("time")>>, "STRING", pa_string,
                  "TIME is unsupported; stored as STRING")
rule_year == Rule(<<Lit("year")>>, "INT", pa_int32, "YEAR mapped to INT")
rule_geometry == Rule(<<Lit("geometry")>>, "STRING", pa_string,
                      "GEOMETRY mapped to STRING (WKT representation expected)")

\* a plausible slip: the general tinyint rule listed before tinyint(1)
MYSQL_TYPE_MAP_tinyint_first ==
  <<rule_tinyint, rule_tinyint1, rule_smallint, rule_mediumint, rule_int,
    rule_bigint, rule_float, rule_double, rule_decimal, rule_varchar, rule_char,
    rule_text, rule_blob, rule_date, rule_datetime, rule_timestamp, rule_enum,
    rule_set, rule_json, rule_time, rule_year, rule_geometry>>

MYSQL_TYPE_MAP ==
  <<rule_tinyint1, rule_tinyint, rule_smallint, rule_mediumint, rule_int,
    rule_bigint, rule_float, rule_double, rule_decimal, rule_varchar, rule_char,
    rule_text, rule_blob, rule_date, rule_datetime, rule_timestamp, rule_enum,
    rule_set, rule_json, rule_time, rule_year, rule_geometry>>

\* the two lambdas of the decimal entry; p and s are the captured texts
hive_decimal(p, s) == "DECIMAL(" \o p \o "," \o s \o ")"
parquet_decimal(p, s) == pa_decimal128(int(p), int(s))

(***************************************************************************)
(* convert_mysql_type.  The result says how the call ended ("return",      *)
(* "exit" for sys.exit(1), "raise" for an exception that escapes), what it *)
(* returned and what it printed.                                           *)
(***************************************************************************)
Returned(hive_type, pq_type, printed) ==
  [outcome |-> "return", hive_type |-> hive_type, pq_type |-> pq_type,
   printed |-> printed, exc |-> ""]
Exited(printed) ==
  [outcome |-> "exit", hive_type |-> "", pq_type |-> pa_none,
   printed |-> printed, exc |-> "SystemExit"]
Raised(exc) ==
  [outcome |-> "raise", hive_type |-> "", pq_type |-> pa_none,
   printed |-> <<>>, exc |-> exc]

unknown_msg(colname, mysql_type) ==
  "Unknown MySQL type '" \o mysql_type \o "' for column '" \o colname \o "'"

\* a plausible slip: the fallback taken without a word
unknown_type_silent(colname, mysql_type, strict) ==
  IF strict
  THEN Exited(error(unknown_msg(colname, mysql_type) \o " (strict mode enabled)"))
  ELSE Returned("STRING", pa_string, <<>>)

\* a plausible slip: strict mode reports the type and carries on
unknown_type_lenient(colname, mysql_type, strict) ==
  IF strict
  THEN Returned("STRING", pa_string,
                error(unknown_msg(colname, mysql_type) \o " (strict mode enabled)"))
  ELSE Returned("STRING", pa_string,
                warn(unknown_msg(colname, mysql_type) \o ". Using STRING fallback."))

\* the tail of convert_mysql_type, reached when the loop matched nothing
unknown_type(colname, mysql_type, strict) ==
  IF strict
  THEN Exited(error(unknown_msg(colname, mysql_type) \o " (strict mode enabled)"))
  ELSE Returned("STRING", pa_string,
                warn(unknown_msg(colname, mysql_type) \o ". Using STRING fallback."))

\* the index of the first rule whose pattern matches t, 0 when none does
first_match(t) ==
  LET hits == {i \in 1..Len(MYSQL_TYPE_MAP) : re_match(MYSQL_TYPE_MAP[i].pattern, t).matched}
  IN  IF hits = {} THEN 0 ELSE Min(hits)

convert_mysql_type(colname, mysql_type, strict, verbose) ==
  LET t == strip(lower(mysql_type), Whitespace)
      i == first_match(t)
  IN  IF i = 0 THEN unknown_type(colname, mysql_type, strict)
      ELSE
        LET mapping == MYSQL_TYPE_MAP[i]
            m == re_match(mapping.pattern, t)
            noted == IF mapping.note # "" /\ verbose
                     THEN info(colname \o ": " \o mapping.note, TRUE)
                     ELSE <<>>
        IN  IF mapping.callable
            THEN IF Len(m.groups) # 2 THEN Raised("ValueError")
                 ELSE LET p == m.groups[1]
                          s == m.groups[2]
                          pq == parquet_decimal(p, s)
                      IN  IF pq.raised THEN Raised("ValueError")
                          ELSE Returned(hive_decimal(p, s), pq.value, noted)
            ELSE Returned(mapping.hive, mapping.parquet, noted)

(***************************************************************************)
(* extract_columns: the pieces of the loop body.                           *)
(***************************************************************************)
\* line.strip().rstrip(",")
clean_line(raw) == rstrip(strip(raw, Whitespace), {","})

is_column_line(line) == startswith(line, BQ)
is_primary_key_line(line) == startswith(upper(line), "PRIMARY KEY")

\* a plausible slip: re.search in place of re.findall, only the first identifier
findall_quoted_first_only(line) ==
  LET opens == {i \in 1..Len(line) :
                  /\ At(line, i) = BQ
                  /\ i + 2 <= Len(line)
                  /\ At(line, i + 1) # BQ
                  /\ \E j \in (i + 2)..Len(line) : At(line, j) = BQ}
  IN  IF opens = {} THEN <<>>
      ELSE LET i == Min(opens)
               j == Min({k \in (i + 2)..Len(line) : At(line, k) = BQ})
           IN  <<SubSeq(line, i + 1, j - 1)>>

\* re.findall(r"`([^`]+)`", line): the non-overlapping matches, left to right
findall_quoted(line) ==
  LET RECURSIVE go(_)
      go(i) ==
        IF i > Len(line) THEN <<>>
        ELSE IF At(line, i) # BQ THEN go(i + 1)
        ELSE LET closes == {j \in (i + 1)..Len(line) : At(line, j) = BQ}
             IN  IF closes = {} THEN <<>>
                 ELSE IF Min(closes) = i + 1 THEN go(i + 1)
                 ELSE <<SubSeq(line, i + 1, Min(closes) - 1)>> \o go(Min(closes) + 1)
  IN  go(1)

(***************************************************************************)
(* The generators.                                                         *)
(***************************************************************************)
\* sep.join(parts)
RECURSIVE join(_, _)
join(sep, parts) ==
  IF parts = <<>> THEN ""
  ELSE IF Len(parts) = 1 THEN parts[1]
  ELSE parts[1] \o sep \o join(sep, Tail(parts))

InSeq(x, seq) == \E i \in 1..Len(seq) : seq[i] = x

\* a plausible slip: the key test never succeeds, no column is annotated
hive_column_line_unmarked(col, hive_type, pks) ==
  "  " \o BQ \o col \o BQ \o " " \o hive_type

\* one entry of `lines` in generate_hive_ddl
hive_column_line(col, hive_type, pks) ==
  IF InSeq(col, pks)
  THEN "  " \o BQ \o col \o BQ \o " " \o hive_type \o " -- PRIMARY KEY"
  ELSE "  " \o BQ \o col \o BQ \o " " \o hive_type

\* a plausible alternative: the comma put before the annotation
generate_hive_ddl_comma_first(tbl, columns, pks) ==
  LET n == Len(columns)
      entry(i) == "  " \o BQ \o columns[i].name \o BQ \o " " \o columns[i].hive_type
                  \o (IF i < n THEN "," ELSE "")
                  \o (IF InSeq(columns[i].name, pks) THEN " -- PRIMARY KEY" ELSE "")
  IN  "CREATE TABLE " \o tbl \o " (\n"
      \o join("\n", [i \in 1..n |-> entry(i)])
      \o "\n)\nSTORED AS PARQUET;\n"

generate_hive_ddl(tbl, columns, pks) ==
  LET lines == [i \in 1..Len(columns) |->
                  hive_column_line(columns[i].name, columns[i].hive_type, pks)]
  IN  "CREATE TABLE " \o tbl \o " (\n" \o join(",\n", lines) \o "\n)\nSTORED AS PARQUET;\n"

\* str(pq_type) as pyarrow prints a data type
pa_str(t) ==
  IF t.type = "decimal128"
  THEN "decimal128(" \o str_of_int(t.precision) \o ", " \o str_of_int(t.scale) \o ")"
  ELSE IF t.type = "timestamp" THEN "timestamp[" \o t.unit \o "]"
  ELSE IF t.type = "date32" THEN "date32[day]"
  ELSE t.type

generate_parquet_schema(tbl, columns) ==
  LET out == <<tbl \o "_schema = pa.schema([">>
             \o [i \in 1..Len(columns) |->
                   "    (\"" \o columns[i].name \o "\", pa." \o pa_str(columns[i].pq_type) \o "),"]
             \o <<"])\n">>
  IN  join("\n", out)

(***************************************************************************)
(* The database: what SHOW CREATE TABLE returns for each table name.       *)
(***************************************************************************)
ddl_users ==
  "CREATE TABLE ^users^ (\n"
  \o "  ^id^ int NOT NULL,\n"
  \o "  ^name^ varchar(255) DEFAULT NULL,\n"
  \o "  ^amount^ decimal(10,2) DEFAULT NULL,\n"
  \o "  PRIMARY KEY (^id^)\n"
  \o ") ENGINE=InnoDB"

ddl_orders ==
  "CREATE TABLE ^orders^ (\n"
  \o "  ^order_id^ bigint NOT NULL,\n"
  \o "  ^line_no^ smallint NOT NULL,\n"
  \o "  ^note^ longtext,\n"
  \o "  ^paid^ tinyint(1) DEFAULT '0',\n"
  \o "  PRIMARY KEY (^order_id^,^line_no^),\n"
  \o "  KEY ^idx_paid^ (^paid^)\n"
  \o ") ENGINE=InnoDB DEFAULT CHARSET=utf8mb4"

ddl_ledger ==
  "CREATE TABLE ^ledger^ (\n"
  \o "  ^id^ int NOT NULL,\n"
  \o "  ^total^ decimal(39,0) NOT NULL,\n"
  \o "  ^memo^ text,\n"
  \o "  PRIMARY KEY (^id^)\n"
  \o ") ENGINE=InnoDB"

ddl_survey ==
  "CREATE TABLE ^survey^ (\n"
  \o "\t^my col^ int,\n"
  \o "\t^seen^ DATETIME,\n"
  \o "\tprimary key (^seen^)\n"
  \o ")"

ddl_events ==
  "CREATE TABLE ^events^ (\n"
  \o "  ^ts^ timestamp NOT NULL DEFAULT CURRENT_TIMESTAMP,\n"
  \o "  ^kind^ enum('a','b') DEFAULT NULL,\n"
  \o "  PRIMARY KEY ()\n"
  \o ") ENGINE=InnoDB"

ddl_empty == "CREATE TABLE ^empty^ (\n) ENGINE=InnoDB"

TableNames == {"users", "orders", "ledger", "survey", "events", "empty", "missing"}

\* cur.execute(SHOW CREATE TABLE) and cur.fetchone(): res[1], or no row
show_create_table(tbl) ==
  CASE tbl = "users" -> [found |-> TRUE, ddl |-> ddl_users]
    [] tbl = "orders" -> [found |-> TRUE, ddl |-> ddl_orders]
    [] tbl = "ledger" -> [found |-> TRUE, ddl |-> ddl_ledger]
    [] tbl = "survey" -> [found |-> TRUE, ddl |-> ddl_survey]
    [] tbl = "events" -> [found |-> TRUE, ddl |-> ddl_events]
    [] tbl = "empty" -> [found |-> TRUE, ddl |-> ddl_empty]
    [] OTHER -> [found |-> FALSE, ddl |-> ""]

(***************************************************************************)
(* State.                                                                  *)
(*   args, tables            the parsed command line                       *)
(*   pc, ti                  where main is; index of the table in hand     *)
(*   lines, li               extract_columns: the split DDL, the next line *)
(*   columns, primary_keys   extract_columns: its two result lists         *)
(*   hive_file, parquet_file the writes appended to the two output files,  *)
(*                           each tagged with the index of its table       *)
(*   console                 what was printed                              *)
(*   calls                   history: the calls of convert_mysql_type, each *)
(*                           with the table, the line and its arguments    *)
(*   exit_code               the process exit status, -1 while running     *)
(*   r_in, r_out             one call of convert_mysql_type on its own     *)
(*   g_in, g_out             one call of generate_hive_ddl on its own      *)
(***************************************************************************)
VARIABLES args, tables, pc, ti, lines, li, columns, primary_keys,
          hive_file, parquet_file, console, calls, exit_code,
          r_in, r_out, g_in, g_out

main_vars == <<args, tables, pc, ti, lines, li, columns, primary_keys,
               hive_file, parquet_file, console, calls, exit_code>>
resolve_vars == <<r_in, r_out>>
generate_vars == <<g_in, g_out>>
vars == <<main_vars, resolve_vars, generate_vars>>

Pending ==
  [outcome |-> "pending", hive_type |-> "", pq_type |-> pa_none,
   printed |-> <<>>, exc |-> ""]

NoCall == [colname |-> "", mysql_type |-> "", strict |-> FALSE, verbose |-> FALSE]
NoRender == [tbl |-> "", columns |-> <<>>, pks |-> <<>>]

ResolveIdle == r_in = NoCall /\ r_out = Pending
GenerateIdle == g_in = NoRender /\ g_out = [done |-> FALSE, ddl |-> ""]
MainIdle ==
  /\ args = [strict |-> FALSE, verbose |-> FALSE, hive |-> FALSE, parquet |-> FALSE]
  /\ tables = <<>>
  /\ pc = "idle"
  /\ ti = 0
  /\ lines = <<>>
  /\ li = 0
  /\ columns = <<>>
  /\ primary_keys = <<>>
  /\ hive_file = <<>>
  /\ parquet_file = <<>>
  /\ console = <<>>
  /\ calls = <<>>
  /\ exit_code = -1

(***************************************************************************)
(* main, from `with conn:` on.  validate_args has passed (one output file  *)
(* at least, one table at least) and the connection is open.  args.hive    *)
(* and args.parquet say whether the path was given; the paths themselves   *)
(* are hive.sql and parquet.sql.  Both files are opened in append mode and *)
(* start empty here.                                                       *)
(***************************************************************************)
SeqsUpTo(S, n) == UNION {[1..k -> S] : k \in 1..n}

Init ==
  /\ args \in {a \in [strict : BOOLEAN, verbose : BOOLEAN, hive : BOOLEAN, parquet : BOOLEAN] :
                 a.hive \/ a.parquet}
  /\ tables \in SeqsUpTo(TableNames, MaxTables)
  /\ pc = "loop"
  /\ ti = 1
  /\ lines = <<>>
  /\ li = 0
  /\ columns = <<>>
  /\ primary_keys = <<>>
  /\ hive_file = <<>>
  /\ parquet_file = <<>>
  /\ console = info("Connecting to MySQL...", args.verbose) \o ok("Connected.", args.verbose)
  /\ calls = <<>>
  /\ exit_code = -1
  /\ ResolveIdle
  /\ GenerateIdle

\* the head of the loop body: fetch the DDL; a table without a row is skipped
FetchTable ==
  /\ pc = "loop"
  /\ ti <= Len(tables)
  /\ LET tbl == tables[ti]
         res == show_create_table(tbl)
         said == info("Processing table: " \o tbl, args.verbose)
     IN  IF ~res.found
         THEN /\ console' = console \o said \o warn("Table not found: " \o tbl)
              /\ ti' = ti + 1
              /\ UNCHANGED <<pc, lines, li, columns, primary_keys>>
         ELSE /\ console' = console \o said
              /\ lines' = split_on(res.ddl, "\n")
              /\ li' = 1
              /\ columns' = <<>>
              /\ primary_keys' = <<>>
              /\ pc' = "extract"
              /\ UNCHANGED ti
  /\ UNCHANGED <<args, tables, hive_file, parquet_file, calls, exit_code>>

\* one iteration of the loop of extract_columns
ExtractLine ==
  /\ pc = "extract"
  /\ li <= Len(lines)
  /\ LET line == clean_line(lines[li])
         parts == split(line)
         pk_cols == IF is_primary_key_line(line) THEN findall_quoted(line) ELSE <<>>
     IN  IF ~is_column_line(line)
         THEN /\ primary_keys' = primary_keys \o pk_cols
              /\ li' = li + 1
              /\ UNCHANGED <<pc, columns, console, calls, exit_code>>
         ELSE IF Len(parts) < 2
         THEN \* parts[1] raises IndexError, which nothing catches
              /\ pc' = "crashed"
              /\ exit_code' = 1
              /\ UNCHANGED <<li, columns, primary_keys, console, calls>>
         ELSE LET colname == strip(parts[1], {BQ})
                  coltype == parts[2]
                  r == convert_mysql_type(colname, coltype, args.strict, args.verbose)
              IN  /\ calls' = Append(calls, [ti |-> ti, li |-> li, line |-> lines[li],
                                             colname |-> colname, coltype |-> coltype])
                  /\ console' = console \o r.printed
                  /\ IF r.outcome = "return"
                     THEN /\ columns' = Append(columns, [name |-> colname,
                                                         hive_type |-> r.hive_type,
                                                         pq_type |-> r.pq_type])
                          /\ primary_keys' = primary_keys \o pk_cols
                          /\ li' = li + 1
                          /\ UNCHANGED <<pc, exit_code>>
                     ELSE /\ pc' = IF r.outcome = "exit" THEN "exited" ELSE "crashed"
                          /\ exit_code' = 1
                          /\ UNCHANGED <<li, columns, primary_keys>>
  /\ UNCHANGED <<args, tables, ti, lines, hive_file, parquet_file>>

\* extract_columns has returned: the Hive output, when asked for
WriteHive ==
  /\ pc = "extract"
  /\ li > Len(lines)
  /\ IF args.hive
     THEN /\ hive_file' = Append(hive_file,
                [ti |-> ti,
                 text |-> generate_hive_ddl(tables[ti], columns, primary_keys) \o "\n\n"])
          /\ console' = console \o ok("Hive DDL written to: hive.sql", args.verbose)
     ELSE UNCHANGED <<hive_file, console>>
  /\ pc' = "parquet"
  /\ UNCHANGED <<args, tables, ti, lines, li, columns, primary_keys,
                 parquet_file, calls, exit_code>>

\* the Parquet output, when asked for; then on to the next table
WriteParquet ==
  /\ pc = "parquet"
  /\ IF args.parquet
     THEN /\ parquet_file' = Append(parquet_file,
                [ti |-> ti,
                 text |-> generate_parquet_schema(tables[ti], columns) \o "\n"])
          /\ console' = console \o ok("Parquet schema written to: parquet.sql", args.verbose)
     ELSE UNCHANGED <<parquet_file, console>>
  /\ pc' = "loop"
  /\ ti' = ti + 1
  /\ UNCHANGED <<args, tables, lines, li, columns, primary_keys,
                 hive_file, calls, exit_code>>

\* the loop is over
Complete ==
  /\ pc = "loop"
  /\ ti > Len(tables)
  /\ console' = console \o ok("Completed all tasks.", TRUE)
  /\ pc' = "done"
  /\ exit_code' = 0
  /\ UNCHANGED <<args, tables, ti, lines, li, columns, primary_keys,
                 hive_file, parquet_file, calls>>

Next ==
  \/ FetchTable /\ UNCHANGED <<resolve_vars, generate_vars>>
  \/ ExtractLine /\ UNCHANGED <<resolve_vars, generate_vars>>
  \/ WriteHive /\ UNCHANGED <<resolve_vars, generate_vars>>
  \/ WriteParquet /\ UNCHANGED <<resolve_vars, generate_vars>>
  \/ Complete /\ UNCHANGED <<resolve_vars, generate_vars>>

Spec == Init /\ [][Next]_vars

(***************************************************************************)
(* One call of convert_mysql_type on a declared type.                      *)
(***************************************************************************)
\* declared types as SHOW CREATE TABLE and hand-written DDL spell them
BaseTypes ==
  {"tinyint(1)", "tinyint", "tinyint(4)", "tinyint(10)", "tinyint(11)",
   "smallint", "mediumint", "int", "int(11)", "bigint", "float", "double",
   "varchar(255)", "char(3)", "text", "blob", "date", "datetime", "datetime(6)",
   "timestamp", "timestamp(3)", "enum('a','b')", "set('x')", "json", "time",
   "year", "geometry",
   "bit(1)", "uuid", "longtext", "varchar", "numeric(10,2)", "decimal",
   "decimal(10, 2)", ""}

DecimalType(p, s) == "decimal(" \o str_of_int(p) \o "," \o str_of_int(s) \o ")"

DecimalTypes ==
  {DecimalType(q[1], q[2]) : q \in {d \in (1..MaxPrecision) \X {0, 2} : d[2] <= d[1]}} \cup
  {DecimalType(p, p) : p \in 1..MaxPrecision} \cup
  {"decimal(010,2)"}

Spelled(t) == {t, upper(t), " " \o t \o " ", "\t" \o upper(t)}

TypeInputs == UNION {Spelled(t) : t \in BaseTypes} \cup DecimalTypes

ResolveInit ==
  /\ r_in \in [colname : {"c", "id"}, mysql_type : TypeInputs,
               strict : BOOLEAN, verbose : BOOLEAN]
  /\ r_out = Pending
  /\ MainIdle
  /\ GenerateIdle

Resolve ==
  /\ r_out.outcome = "pending"
  /\ r_out' = convert_mysql_type(r_in.colname, r_in.mysql_type, r_in.strict, r_in.verbose)
  /\ UNCHANGED <<r_in, main_vars, generate_vars>>

ResolveNext == Resolve
SpecResolve == ResolveInit /\ [][ResolveNext]_vars

(***************************************************************************)
(* One call of generate_hive_ddl on a column list and a key list.          *)
(***************************************************************************)
ColumnInputs ==
  [name : {"id", "name"}, hive_type : {"INT", "DECIMAL(10,2)"}, pq_type : {pa_int32}]
KeyInputs == {"id", "name", "gone"}

GenerateInit ==
  /\ g_in \in [tbl : {"users", "t"},
               columns : {<<>>} \cup SeqsUpTo(ColumnInputs, MaxCols),
               pks : {<<>>} \cup SeqsUpTo(KeyInputs, MaxPks)]
  /\ g_out = [done |-> FALSE, ddl |-> ""]
  /\ MainIdle
  /\ ResolveIdle

Generate ==
  /\ ~g_out.done
  /\ g_out' = [done |-> TRUE, ddl |-> generate_hive_ddl(g_in.tbl, g_in.columns, g_in.pks)]
  /\ UNCHANGED <<g_in, main_vars, resolve_vars>>

GenerateNext == Generate
SpecGenerate == GenerateInit /\ [][GenerateNext]_vars

(***************************************************************************)
(* Vocabulary of the claims.                                               *)
(***************************************************************************)
Normalized(t) == strip(lower(t), Whitespace)
Resolved == r_out.outcome # "pending"
ReturnedPair(hive_type, pq_type) ==
  r_out.outcome = "return" /\ r_out.hive_type = hive_type /\ r_out.pq_type = pq_type

AllDigits(ds) == ds # "" /\ \A i \in 1..Len(ds) : IsDigit(At(ds, i))
EndsWith(text, suffix) ==
  Len(suffix) <= Len(text) /\ SubSeq(text, Len(text) - Len(suffix) + 1, Len(text)) = suffix

\* name(digits), with the digits returned; "" when t has no such shape
WidthOf(t, name) ==
  IF startswith(t, name \o "(") /\ EndsWith(t, ")")
  THEN SubSeq(t, Len(name) + 2, Len(t) - 1)
  ELSE ""

IsDateTimeType(t) ==
  t \in {"datetime", "timestamp"} \/ AllDigits(WidthOf(t, "datetime"))

IsBooleanTinyint(t) == t = "tinyint(1)"
IsOtherTinyint(t) ==
  t = "tinyint" \/ (AllDigits(WidthOf(t, "tinyint")) /\ WidthOf(t, "tinyint") # "1")

Unmapped(t) == first_match(Normalized(t)) = 0

(***************************************************************************)
(* C1: a declared type whose normalized form is datetime, datetime with a  *)
(* precision suffix, or timestamp resolves to (TIMESTAMP, timestamp[s]),   *)
(* never to the calendar-date pair.                                        *)
(***************************************************************************)
C1_DateTimeResolvesToTimestamp ==
  (Resolved /\ IsDateTimeType(Normalized(r_in.mysql_type)))
    => ReturnedPair("TIMESTAMP", pa_timestamp("s"))

(***************************************************************************)
(* C2: tinyint(1), in any letter case and with surrounding whitespace,     *)
(* resolves to (BOOLEAN, bool); tinyint without a width or with any other  *)
(* width resolves to (TINYINT, int8).                                      *)
(***************************************************************************)
C2_TinyintOneIsBoolean ==
  Resolved =>
    /\ IsBooleanTinyint(Normalized(r_in.mysql_type)) => ReturnedPair("BOOLEAN", pa_bool)
    /\ IsOtherTinyint(Normalized(r_in.mysql_type)) => ReturnedPair("TINYINT", pa_int8)

C2_Witness ==
  /\ ReturnedPair("BOOLEAN", pa_bool)
  /\ r_in.mysql_type = "\tTINYINT(1)"

(***************************************************************************)
(* C3: decimal(p,s) with p >= s >= 0 and p > 0 resolves to the Hive type   *)
(* DECIMAL(p,s) and to a Parquet decimal of precision p and scale s.       *)
(***************************************************************************)
C3_DecimalCarriesPrecisionAndScale ==
  Resolved =>
    \A p \in 1..MaxPrecision : \A s \in 0..p :
      r_in.mysql_type = DecimalType(p, s) =>
        ReturnedPair("DECIMAL(" \o str_of_int(p) \o "," \o str_of_int(s) \o ")",
                     [type |-> "decimal128", precision |-> p, scale |-> s])

(***************************************************************************)
(* C4: with strict mode off, a declared type that matches no rule does not *)
(* fail: the call returns (STRING, string) and prints exactly one warning, *)
(* which names the column and the type, whatever the verbose flag; and no  *)
(* unmapped type is resolved without a diagnostic.                         *)
(***************************************************************************)
C4_UnknownTypeFallsBackWithOneWarning ==
  (Resolved /\ Unmapped(r_in.mysql_type)) =>
    /\ r_out.printed # <<>>
    /\ ~r_in.strict =>
         /\ ReturnedPair("STRING", pa_string)
         /\ Len(r_out.printed) = 1
         /\ r_out.printed[1].level = "warn"
         /\ Contains(r_out.printed[1].msg, "'" \o r_in.mysql_type \o "'")
         /\ Contains(r_out.printed[1].msg, "'" \o r_in.colname \o "'")

C4_Witness ==
  /\ Resolved
  /\ Unmapped(r_in.mysql_type)
  /\ r_in.mysql_type = "longtext"
  /\ ~r_in.strict
  /\ ~r_in.verbose
  /\ r_out.outcome = "return"
  /\ Len(r_out.printed) = 1

BlockOf(file, j) == {n \in 1..Len(file) : file[n].ti = j}

(***************************************************************************)
(* C5: in a strict run the first column whose type matches no rule ends    *)
(* the run at once: it is the last column resolved, no Hive or Parquet     *)
(* block exists for its table or a later one, and the blocks of the tables *)
(* before it are in the files.                                             *)
(***************************************************************************)
C5_StrictAbortEndsTheRun ==
  args.strict =>
    \A k \in 1..Len(calls) :
      Unmapped(calls[k].coltype) =>
        /\ k = Len(calls)
        /\ pc = "exited"
        /\ exit_code = 1
        /\ \A n \in 1..Len(hive_file) : hive_file[n].ti < calls[k].ti
        /\ \A n \in 1..Len(parquet_file) : parquet_file[n].ti < calls[k].ti
        /\ \A j \in 1..(calls[k].ti - 1) :
             show_create_table(tables[j]).found =>
               /\ args.hive =>
                    \E n \in BlockOf(hive_file, j) :
                      startswith(hive_file[n].text, "CREATE TABLE " \o tables[j] \o " (")
               /\ args.parquet =>
                    \E n \in BlockOf(parquet_file, j) :
                      startswith(parquet_file[n].text, tables[j] \o "_schema")

C5_Witness ==
  /\ args.strict
  /\ pc = "exited"
  /\ ti = 2
  /\ Len(hive_file) = 1
  /\ Len(parquet_file) = 1
  /\ \E l \in (li + 1)..Len(lines) : is_column_line(clean_line(lines[l]))

ColumnLines(ls) == {l \in 1..Len(ls) : startswith(strip(ls[l], Whitespace), BQ)}
WellFormed(ls) == \A l \in ColumnLines(ls) : Len(split(clean_line(ls[l]))) >= 2
ExtractionOver == pc \in {"parquet", "crashed"} \/ (pc = "extract" /\ li > Len(lines))

(***************************************************************************)
(* C6: with strict mode off, extract_columns on a well-formed DDL text     *)
(* returns exactly one column per column-declaration line, in line order,  *)
(* and calls the resolver exactly once per such line.                      *)
(***************************************************************************)
C6_OneColumnPerColumnLine ==
  (ExtractionOver /\ ~args.strict /\ WellFormed(lines)) =>
    LET mine == SelectSeq(calls, LAMBDA c : c.ti = ti)
        n == Cardinality(ColumnLines(lines))
    IN  /\ pc # "crashed"
        /\ Len(columns) = n
        /\ Len(mine) = n
        /\ \A i \in 1..n :
             /\ mine[i].li = Nth(ColumnLines(lines), i)
             /\ columns[i].name = mine[i].colname

Backticks(line) == {i \in 1..Len(line) : At(line, i) = BQ}
QuotedName(line) ==
  SubSeq(line, Nth(Backticks(line), 1) + 1, Nth(Backticks(line), 2) - 1)
TokenAfterName(line) == split(From(line, Nth(Backticks(line), 2) + 1))[1]

(***************************************************************************)
(* C7: on every column-declaration line the recorded column name is the    *)
(* text between the first pair of backticks and the type handed to the     *)
(* resolver is the first whitespace-separated token after the closing one. *)
(***************************************************************************)
C7_NameAndTypeOfColumnLine ==
  \A k \in 1..Len(calls) :
    LET line == clean_line(calls[k].line) IN
      /\ calls[k].colname = QuotedName(line)
      /\ calls[k].coltype = TokenAfterName(line)

KeyLines(ls, upto) ==
  {l \in 1..upto : startswith(upper(strip(ls[l], Whitespace)), "PRIMARY KEY")}
PairedIds(line) ==
  [j \in 1..(Cardinality(Backticks(line)) \div 2) |->
     SubSeq(line, Nth(Backticks(line), 2 * j - 1) + 1, Nth(Backticks(line), 2 * j) - 1)]

(***************************************************************************)
(* C8: the primary-key list holds exactly the quoted identifiers of the    *)
(* primary-key line, in order; column lines add nothing to it and a key    *)
(* line without identifiers adds nothing.                                  *)
(***************************************************************************)
C8_PrimaryKeysAreTheKeyLineIdentifiers ==
  pc \in {"extract", "parquet"} =>
    LET keys == KeyLines(lines, li - 1) IN
      /\ keys = {} => primary_keys = <<>>
      /\ \A l \in keys : primary_keys = PairedIds(lines[l])

C8_Witness ==
  /\ pc = "parquet"
  /\ Len(primary_keys) = 2
  /\ Len(columns) > 2
  /\ \E i \in 1..Len(columns) : columns[i].name = primary_keys[2]

OutLines == split_on(g_out.ddl, "\n")
Entry(c) == "  " \o BQ \o c.name \o BQ \o " " \o c.hive_type
Marker == " -- PRIMARY KEY"
IsKey(c) == \E k \in 1..Len(g_in.pks) : g_in.pks[k] = c.name

(***************************************************************************)
(* C9: generate_hive_ddl returns one CREATE TABLE statement: the header    *)
(* with the table name, one line per column in column order giving name    *)
(* and Hive type, with the primary-key marker exactly on the columns named *)
(* in the key list, the entries comma-separated, closed by STORED AS       *)
(* PARQUET; an empty column list gives the same frame without entries.     *)
(***************************************************************************)
C9_HiveDdlShape ==
  g_out.done =>
    LET n == Len(g_in.columns)
        body == IF n = 0 THEN 1 ELSE n
    IN  /\ Len(OutLines) = body + 4
        /\ OutLines[1] = "CREATE TABLE " \o g_in.tbl \o " ("
        /\ n = 0 => OutLines[2] = ""
        /\ \A i \in 1..n :
             OutLines[i + 1] = Entry(g_in.columns[i])
                               \o (IF IsKey(g_in.columns[i]) THEN Marker ELSE "")
                               \o (IF i < n THEN "," ELSE "")
        /\ OutLines[body + 2] = ")"
        /\ OutLines[body + 3] = "STORED AS PARQUET;"
        /\ OutLines[body + 4] = ""

C9_Witness ==
  /\ g_out.done
  /\ Len(g_in.columns) = 2
  /\ IsKey(g_in.columns[1])
  /\ ~IsKey(g_in.columns[2])
  /\ Contains(g_out.ddl, Marker)

(***************************************************************************)
(* C10: the separating comma ends the column's line.  On the line of a     *)
(* primary-key column that is not the last column it comes after the       *)
(* -- PRIMARY KEY marker; on the line of any other column that is not the  *)
(* last it directly follows the Hive type.                                 *)
(***************************************************************************)
C10_CommaFollowsMarker ==
  g_out.done =>
    \A i \in 1..(Len(g_in.columns) - 1) :
      LET line == OutLines[i + 1]
          c == g_in.columns[i]
      IN  IF IsKey(c)
          THEN /\ EndsWith(line, Marker \o ",")
               /\ ~EndsWith(SubSeq(line, 1, Len(line) - Len(Marker) - 1), ",")
          ELSE /\ EndsWith(line, c.hive_type \o ",")
               /\ ~Contains(line, "--")

C10_Witness ==
  /\ g_out.done
  /\ Len(g_in.columns) = 2
  /\ IsKey(g_in.columns[1])
  /\ EndsWith(OutLines[2], Marker \o ",")
====
